---------------------------- MODULE Spec2Model ----------------------------
(***************************************************************************)
(* A model of the GraphQL client bootstrap of opencollective-frontend      *)
(* (src/lib/initClient.js, with getGraphqlUrl of src/lib/utils.js): the    *)
(* server-vs-browser singleton policy of initClient, the link chain that   *)
(* createClient composes (errorLink, authLink, the apiVersion split over   *)
(* the two HttpLinks), the instrumented fetch wrapper, and the cache       *)
(* configuration (dataIdFromObject, the Event.tiers merge function).       *)
(***************************************************************************)
EXTENDS Integers, Sequences, FiniteSets, TLC

VARIABLES
  browser,       \* process.browser of the executing process
  env,           \* process.env: the variables the code reads
  localStorage,  \* the value stored under LOCAL_STORAGE_KEYS.ACCESS_TOKEN
  apolloClient,  \* the module-level singleton (0 is null, else a client id)
  clients,       \* every client createClient has built, by id (its index)
  calls,         \* the initClient calls so far: arguments and returned id
  op,            \* the operation in flight through the link chain
  cache,         \* the normalized store of one InMemoryCache
  writes,        \* the objects that cache has normalized, in order
  timer,         \* a repeatWithInterval run: its pending timeout, func's calls
  promises,      \* an allSettled call: its inputs, the wrappers, the result
  urlCheck,      \* an isValidRelativeUrl call: the url and the answer
  flow           \* a ContributionFlow: props, state, steps, navigation

vars == <<browser, env, localStorage, apolloClient, clients, calls, op, cache, writes,
          timer, promises, urlCheck, flow>>

clientVars == <<browser, env, localStorage, apolloClient, clients, calls, op>>
cacheVars == <<cache, writes>>
utilVars == <<timer, promises, urlCheck, flow>>

-----------------------------------------------------------------------------
(* Bounds of the model.                                                    *)

MaxCalls == 2    \* initClient calls in one behaviour
MaxWrites == 2   \* objects normalized into the cache in one behaviour

-----------------------------------------------------------------------------
(* JavaScript values: the code branches on truthiness (||, if (token)) and *)
(* compares with ===, so undefined, null, numbers and strings are kept     *)
(* apart.                                                                  *)

Undefined == [t |-> "undefined", s |-> "", n |-> 0]
Null == [t |-> "null", s |-> "", n |-> 0]
Str(s) == [t |-> "string", s |-> s, n |-> 0]
Num(n) == [t |-> "number", s |-> "", n |-> n]

\* ToBoolean: undefined, null, 0 and "" are falsy.
Truthy(v) == \/ v.t = "string" /\ v.s # ""
             \/ v.t = "number" /\ v.n # 0

\* The string a template literal `${v}` produces.
ToStr(v) == CASE v.t = "string" -> v.s
              [] v.t = "number" -> ToString(v.n)
              [] v.t = "null" -> "null"
              [] OTHER -> "undefined"

\* a || b
Or(a, b) == IF Truthy(a) THEN a ELSE b

\* { ...h, [k]: v } on header objects (functions from header names to values).
Spread(h, k, v) == [x \in (DOMAIN h) \cup {k} |-> IF x = k THEN v ELSE h[x]]

\* { ...a, ...b }
Merge(a, b) == [x \in (DOMAIN a) \cup (DOMAIN b) |-> IF x \in DOMAIN b THEN b[x] ELSE a[x]]

NoHeaders == [x \in {} |-> Undefined]

-----------------------------------------------------------------------------
(* src/lib/utils.js                                                        *)

getBaseApiUrl ==
  IF browser THEN "/api"
  ELSE ToStr(Or(env.API_URL, Str("https://api.opencollective.com")))

getGraphqlUrl(apiVersion) ==
  LET apiKey == IF ~browser THEN env.API_KEY ELSE Null
  IN getBaseApiUrl \o "/graphql"
       \o (IF Truthy(apiVersion) THEN "/" \o ToStr(apiVersion) ELSE "")
       \o (IF Truthy(apiKey) THEN "?api_key=" \o ToStr(apiKey) ELSE "")

-----------------------------------------------------------------------------
(* src/lib/initClient.js: createClient and initClient                      *)

\* An initial cache snapshot: undefined, or a serialized store.
Snapshot1 == [id \in {"Event:1"} |-> [hasTiers |-> TRUE, tiers |-> <<"a", "b">>]]
EmptyStore == [id \in {} |-> [hasTiers |-> FALSE, tiers |-> <<>>]]
InitialStates == {EmptyStore, Snapshot1}

\* cache.restore(initialState): the store becomes the snapshot.
restore(initialState) == initialState

\* The arguments initClient is called with: no graphqlUrl, the empty string,
\* or an endpoint override, with either snapshot.
Override == "https://example.test/graphql"
OtherOverride == "https://other.test/graphql"
InitArgs == { [initialState |-> EmptyStore, graphqlUrl |-> Undefined],
              [initialState |-> Snapshot1, graphqlUrl |-> Str(Override)],
              [initialState |-> EmptyStore, graphqlUrl |-> Str(OtherOverride)],
              [initialState |-> Snapshot1, graphqlUrl |-> Str("")] }

\* A chain with the first two links exchanged.
linkAuthFirst == <<"authLink", "errorLink", "httpLink">>

\* ApolloLink.from([errorLink, authLink, httpLink])
link == <<"errorLink", "authLink", "httpLink">>

\* A v2 transport that ignores the override.
apiV2LinkNoOverride(graphqlUrl) == getGraphqlUrl(Str("v2"))

\* new HttpLink({ uri: graphqlUrl || getGraphqlUrl('v1'), fetch }), and v2.
apiV1Link(graphqlUrl) == ToStr(Or(graphqlUrl, Str(getGraphqlUrl(Str("v1")))))
apiV2Link(graphqlUrl) == ToStr(Or(graphqlUrl, Str(getGraphqlUrl(Str("v2")))))

createClient(initialState, graphqlUrl) ==
  [ graphqlUrl |-> graphqlUrl,
    initialState |-> initialState,
    v1uri |-> apiV1Link(graphqlUrl),
    v2uri |-> apiV2Link(graphqlUrl),
    link |-> link,
    ssrMode |-> ~browser,
    cache |-> restore(initialState) ]

\* An initClient that builds a client on every call, whatever the mode.
initClientAlwaysNew(initialState, graphqlUrl) ==
  /\ Len(calls) < MaxCalls
  /\ clients' = Append(clients, createClient(initialState, graphqlUrl))
  /\ apolloClient' = IF browser THEN Len(clients) + 1 ELSE apolloClient
  /\ calls' = Append(calls, [initialState |-> initialState, graphqlUrl |-> graphqlUrl,
                             returned |-> Len(clients) + 1])
  /\ UNCHANGED <<browser, env, localStorage, op, cacheVars, utilVars>>

\* An initClient that keeps the singleton whatever the mode.
initClientAlwaysReuse(initialState, graphqlUrl) ==
  /\ Len(calls) < MaxCalls
  /\ IF apolloClient = 0
       THEN /\ clients' = Append(clients, createClient(initialState, graphqlUrl))
            /\ apolloClient' = Len(clients) + 1
            /\ calls' = Append(calls, [initialState |-> initialState, graphqlUrl |-> graphqlUrl,
                                       returned |-> Len(clients) + 1])
       ELSE /\ calls' = Append(calls, [initialState |-> initialState, graphqlUrl |-> graphqlUrl,
                                       returned |-> apolloClient])
            /\ UNCHANGED <<clients, apolloClient>>
  /\ UNCHANGED <<browser, env, localStorage, op, cacheVars, utilVars>>

\* An initClient whose later browser calls rebuild the kept client from
\* their own arguments.
initClientAdoptsArguments(initialState, graphqlUrl) ==
  /\ Len(calls) < MaxCalls
  /\ IF ~browser
       THEN /\ clients' = Append(clients, createClient(initialState, graphqlUrl))
            /\ calls' = Append(calls, [initialState |-> initialState,
                                       graphqlUrl |-> graphqlUrl,
                                       returned |-> Len(clients) + 1])
            /\ UNCHANGED apolloClient
       ELSE IF apolloClient = 0
         THEN /\ clients' = Append(clients, createClient(initialState, graphqlUrl))
              /\ apolloClient' = Len(clients) + 1
              /\ calls' = Append(calls, [initialState |-> initialState,
                                         graphqlUrl |-> graphqlUrl,
                                         returned |-> Len(clients) + 1])
         ELSE /\ clients' = [clients EXCEPT ![apolloClient] = createClient(initialState, graphqlUrl)]
              /\ calls' = Append(calls, [initialState |-> initialState,
                                         graphqlUrl |-> graphqlUrl,
                                         returned |-> apolloClient])
              /\ UNCHANGED apolloClient
  /\ UNCHANGED <<browser, env, localStorage, op, cacheVars, utilVars>>

\* initClient(initialState, graphqlUrl)
initClient(initialState, graphqlUrl) ==
  /\ Len(calls) < MaxCalls
  /\ IF ~browser
       THEN /\ clients' = Append(clients, createClient(initialState, graphqlUrl))
            /\ calls' = Append(calls, [initialState |-> initialState,
                                       graphqlUrl |-> graphqlUrl,
                                       returned |-> Len(clients) + 1])
            /\ UNCHANGED apolloClient
       ELSE IF apolloClient = 0
         THEN /\ clients' = Append(clients, createClient(initialState, graphqlUrl))
              /\ apolloClient' = Len(clients) + 1
              /\ calls' = Append(calls, [initialState |-> initialState,
                                         graphqlUrl |-> graphqlUrl,
                                         returned |-> Len(clients) + 1])
         ELSE /\ calls' = Append(calls, [initialState |-> initialState,
                                         graphqlUrl |-> graphqlUrl,
                                         returned |-> apolloClient])
              /\ UNCHANGED <<clients, apolloClient>>
  /\ UNCHANGED <<browser, env, localStorage, op, cacheVars, utilVars>>

InitClient == \E a \in InitArgs : initClient(a.initialState, a.graphqlUrl)

-----------------------------------------------------------------------------
(* An operation through the link chain of a client.                        *)

\* What the transport can answer: data, data with GraphQL errors (entries
\* may be null), or a network failure.
GqlError == [isNull |-> FALSE, message |-> "Not found", locations |-> "1:2", path |-> "Collective"]
NullError == [isNull |-> TRUE, message |-> "", locations |-> "", path |-> ""]
NoOutcome == [kind |-> "none", data |-> "", errors |-> <<>>, networkError |-> ""]
Success == [kind |-> "success", data |-> "data", errors |-> <<>>, networkError |-> ""]
WithErrors(errs) == [kind |-> "graphQLErrors", data |-> "partial", errors |-> errs, networkError |-> ""]
NetworkError == [kind |-> "networkError", data |-> "", errors |-> <<>>, networkError |-> "TypeError: Failed to fetch"]
Responses == {Success, WithErrors(<<GqlError>>), WithErrors(<<NullError, GqlError>>)}

\* The operations callers issue: the context (apiVersion, headers) and the
\* operation name of the body.
CustomHeaders == [x \in {"x-custom"} |-> Str("1")]
StaleAuth == [x \in {"authorization"} |-> Str("Bearer stale")]
Operations ==
  { [apiVersion |-> Undefined, hasHeaders |-> FALSE, headers |-> NoHeaders, operationName |-> Undefined],
    [apiVersion |-> Str("1"), hasHeaders |-> TRUE, headers |-> CustomHeaders, operationName |-> Str("Collective")],
    [apiVersion |-> Str("2"), hasHeaders |-> FALSE, headers |-> NoHeaders, operationName |-> Str("Account")],
    [apiVersion |-> Str("2"), hasHeaders |-> TRUE, headers |-> StaleAuth, operationName |-> Undefined],
    [apiVersion |-> Num(2), hasHeaders |-> TRUE, headers |-> NoHeaders, operationName |-> Str("Account")] }

Idle ==
  [ pc |-> "idle", client |-> 0, idx |-> 0,
    context |-> [apiVersion |-> Undefined, hasHeaders |-> FALSE, headers |-> NoHeaders],
    operationName |-> Undefined,
    token |-> Undefined, headersIn |-> NoHeaders, hadHeaders |-> FALSE,
    transport |-> "", uri |-> "", options |-> NoHeaders, url |-> "", sent |-> NoHeaders,
    crossFetchCalls |-> 0, fetched |-> NoOutcome, fetchReturned |-> NoOutcome,
    outcome |-> NoOutcome, result |-> NoOutcome,
    delivered |-> NoOutcome, log |-> <<>>, trace |-> <<>> ]

\* The clients callers hold: those initClient has returned.
Returned == {calls[i].returned : i \in 1..Len(calls)}

\* client.query / client.mutate: the operation enters the first link.
Execute(c, o) ==
  /\ op.pc \in {"idle", "done"}
  /\ c \in Returned
  /\ op' = [Idle EXCEPT !.pc = "request", !.client = c, !.idx = 1,
                        !.context = [apiVersion |-> o.apiVersion, hasHeaders |-> o.hasHeaders,
                                     headers |-> o.headers],
                        !.operationName = o.operationName]
  /\ UNCHANGED <<browser, env, localStorage, apolloClient, clients, calls, cacheVars, utilVars>>

Query == \E c \in Returned, o \in Operations : Execute(c, o)

\* The link the operation is at.
AtLink(name) ==
  /\ op.pc \in {"request", "response"}
  /\ op.idx \in 1..Len(clients[op.client].link)
  /\ clients[op.client].link[op.idx] = name

\* onError, on the way in: subscribes to forward(operation).
ErrorLinkRequest ==
  /\ op.pc = "request" /\ AtLink("errorLink")
  /\ op' = [op EXCEPT !.idx = @ + 1, !.trace = Append(@, "errorLink")]
  /\ UNCHANGED <<browser, env, localStorage, apolloClient, clients, calls, cacheVars, utilVars>>

\* A setter that forgets the incoming headers.
authLinkDropsHeaders(hasHeaders, headers, token) ==
  IF Truthy(token)
    THEN [returned |-> TRUE,
          headers |-> [x \in {"authorization"} |-> Str("Bearer " \o ToStr(token))]]
    ELSE [returned |-> FALSE, headers |-> NoHeaders]

\* getFromLocalStorage(LOCAL_STORAGE_KEYS.ACCESS_TOKEN): the accessor of
\* lib/local-storage reads the stored value, null when there is none.
getFromLocalStorage == localStorage

\* The setter of authLink: what it returns for the context's headers.
\* returned = FALSE is the implicit return of undefined.
authLink(hasHeaders, headers, token) ==
  IF Truthy(token)
    THEN [returned |-> TRUE,
          headers |-> Spread(IF hasHeaders THEN headers ELSE NoHeaders,
                             "authorization", Str("Bearer " \o ToStr(token)))]
    ELSE [returned |-> FALSE, headers |-> NoHeaders]

\* setContext: operation.setContext({ ...context, ...setterResult }), then forward.
AuthLinkRequest ==
  /\ op.pc = "request" /\ AtLink("authLink")
  /\ LET token == getFromLocalStorage
         set == authLink(op.context.hasHeaders, op.context.headers, token)
     IN op' = [op EXCEPT !.idx = @ + 1,
                         !.token = token,
                         !.hadHeaders = op.context.hasHeaders,
                         !.headersIn = op.context.headers,
                         !.context = IF set.returned
                                       THEN [@ EXCEPT !.hasHeaders = TRUE, !.headers = set.headers]
                                       ELSE @,
                         !.trace = Append(@, "authLink")]
  /\ UNCHANGED <<browser, env, localStorage, apolloClient, clients, calls, cacheVars, utilVars>>

\* The test of ApolloLink.split: operation.getContext().apiVersion === '2'
split(context) == IF context.apiVersion = Str("2") THEN "apiV2Link" ELSE "apiV1Link"

\* The headers HttpLink hands to fetch: its defaults, then the context's.
DefaultHeaders == [x \in {"accept", "content-type"} |->
                     IF x = "accept" THEN Str("*/*") ELSE Str("application/json")]

\* httpLink: the split picks one HttpLink, which calls fetch(uri, options).
HttpLinkRequest ==
  /\ op.pc = "request" /\ AtLink("httpLink")
  /\ LET chosen == split(op.context)
         client == clients[op.client]
     IN op' = [op EXCEPT !.pc = "fetch",
                         !.transport = chosen,
                         !.uri = IF chosen = "apiV2Link" THEN client.v2uri ELSE client.v1uri,
                         !.options = Merge(DefaultHeaders,
                                           IF op.context.hasHeaders THEN op.context.headers
                                                                    ELSE NoHeaders),
                         !.trace = @ \o <<"httpLink", chosen>>]
  /\ UNCHANGED <<browser, env, localStorage, apolloClient, clients, calls, cacheVars, utilVars>>

\* A fetch that adds the identifying headers in every mode.
fetchHeadersEverywhere(headers) ==
  Spread(Spread(Spread(Spread(headers,
    "oc-env", env.OC_ENV),
    "oc-secret", env.OC_SECRET),
    "oc-application", env.OC_APPLICATION),
    "user-agent", Str("opencollective-frontend/1.0 node-fetch/1.0"))

\* fetch, up to the await: the headers it hands to crossFetch.
fetchHeaders(headers) ==
  IF ~browser
    THEN Spread(Spread(Spread(Spread(headers,
           "oc-env", env.OC_ENV),
           "oc-secret", env.OC_SECRET),
           "oc-application", env.OC_APPLICATION),
           "user-agent", Str("opencollective-frontend/1.0 node-fetch/1.0"))
    ELSE headers

Fetch ==
  /\ op.pc = "fetch"
  /\ op' = [op EXCEPT !.pc = "crossFetch",
                      !.url = op.uri,
                      !.sent = fetchHeaders(op.options),
                      !.crossFetchCalls = @ + 1,
                      !.trace = Append(@, "fetch")]
  /\ UNCHANGED <<browser, env, localStorage, apolloClient, clients, calls, cacheVars, utilVars>>

\* crossFetch settles: the promise resolves with a response or rejects.
CrossFetch ==
  /\ op.pc = "crossFetch"
  /\ \E r \in Responses \cup {NetworkError} :
       op' = [op EXCEPT !.pc = "await", !.fetched = r, !.trace = Append(@, "crossFetch")]
  /\ UNCHANGED <<browser, env, localStorage, apolloClient, clients, calls, cacheVars, utilVars>>

\* fetch, after the await: the benchmark line, when process.hrtime exists
\* and GRAPHQL_BENCHMARK is set. body.variables is an object, so the line is
\* logged whatever the operation name.
benchmarkLog(operationName) ==
  IF env.hrtime /\ Truthy(env.GRAPHQL_BENCHMARK)
    THEN <<"-> Fetched " \o ToStr(Or(operationName, Str("anonymous GraphQL query")))>>
    ELSE <<>>

\* A fetch that answers a failed crossFetch with an empty response.
fetchSettlesSwallows(fetched, operationName) ==
  IF fetched.kind = "networkError"
    THEN [settled |-> Success, log |-> <<>>]
    ELSE [settled |-> fetched, log |-> benchmarkLog(operationName)]

\* fetch, from the await on: a rejected crossFetch makes the await throw, so
\* fetch rejects with the same error and logs nothing; a response is logged
\* about, when benchmarking, and returned.
fetchSettles(fetched, operationName) ==
  IF fetched.kind = "networkError"
    THEN [settled |-> fetched, log |-> <<>>]
    ELSE [settled |-> fetched, log |-> benchmarkLog(operationName)]

\* The HttpLink turns what fetch gave into the operation's outcome, which
\* starts back through the links.
FetchReturn ==
  /\ op.pc = "await"
  /\ LET done == fetchSettles(op.fetched, op.operationName)
     IN op' = [op EXCEPT !.pc = "response",
                         !.idx = @ - 1,
                         !.fetchReturned = done.settled,
                         !.outcome = done.settled,
                         !.result = done.settled,
                         !.log = @ \o done.log]
  /\ UNCHANGED <<browser, env, localStorage, apolloClient, clients, calls, cacheVars, utilVars>>

\* setContext, on the way back: relays what the next link produced.
AuthLinkResponse ==
  /\ op.pc = "response" /\ AtLink("authLink")
  /\ op' = [op EXCEPT !.idx = @ - 1, !.trace = Append(@, "authLink.next")]
  /\ UNCHANGED <<browser, env, localStorage, apolloClient, clients, calls, cacheVars, utilVars>>

\* The lines the handler given to onError writes with console.error.
RECURSIVE graphQLErrorLog(_)
graphQLErrorLog(errors) ==
  IF errors = <<>> THEN <<>>
  ELSE LET error == Head(errors)
       IN <<IF ~error.isNull
              THEN "[GraphQL error]: Message: " \o error.message \o ", Location: "
                     \o error.locations \o ", Path: " \o error.path
              ELSE "[GraphQL error]: Received null error">>
          \o graphQLErrorLog(Tail(errors))

\* An error link that drops the null entries it reports.
errorLinkDropsNull(outcome) ==
  [ log |-> (IF outcome.kind = "graphQLErrors" THEN graphQLErrorLog(outcome.errors) ELSE <<>>)
            \o (IF outcome.kind = "networkError"
                  THEN <<"[Network error]: " \o outcome.networkError>> ELSE <<>>),
    result |-> [outcome EXCEPT !.errors = SelectSeq(@, LAMBDA e : ~e.isNull)] ]

\* errorLink: what it logs and what it passes on. The handler returns
\* undefined, so onError forwards the result or the error it was given.
errorLink(outcome) ==
  [ log |-> (IF outcome.kind = "graphQLErrors" THEN graphQLErrorLog(outcome.errors) ELSE <<>>)
            \o (IF outcome.kind = "networkError"
                  THEN <<"[Network error]: " \o outcome.networkError>> ELSE <<>>),
    result |-> outcome ]

ErrorLinkResponse ==
  /\ op.pc = "response" /\ AtLink("errorLink")
  /\ LET seen == errorLink(op.result)
     IN op' = [op EXCEPT !.idx = @ - 1,
                         !.result = seen.result,
                         !.log = @ \o seen.log,
                         !.trace = Append(@, "errorLink.next")]
  /\ UNCHANGED <<browser, env, localStorage, apolloClient, clients, calls, cacheVars, utilVars>>

\* The caller's promise settles with what came out of the first link.
Deliver ==
  /\ op.pc = "response" /\ op.idx = 0
  /\ op' = [op EXCEPT !.pc = "done", !.delivered = op.result, !.trace = Append(@, "caller")]
  /\ UNCHANGED <<browser, env, localStorage, apolloClient, clients, calls, cacheVars, utilVars>>

\* The access token changes (sign in, sign out) outside this module.
LocalStorageTokens == {Null, Str(""), Str("T1")}

SetAccessToken ==
  /\ \E v \in LocalStorageTokens : v # localStorage /\ localStorage' = v
  /\ UNCHANGED <<browser, env, apolloClient, clients, calls, op, cacheVars, utilVars>>

-----------------------------------------------------------------------------
(* src/lib/utils.js: repeatWithInterval, on a clock that setTimeout reads. *)

MaxTimes == 6      \* the largest nbTimes tried
MaxInterval == 2   \* the largest interval tried, in clock ticks

NoTimer == [nbTimes |-> 0, interval |-> 0, started |-> FALSE, now |-> 0,
            hasPending |-> FALSE, pending |-> 0, due |-> 0, called |-> <<>>]

\* The body of repeatWithInterval(nbTimes, interval, func) on the run t:
\* func(nbTimes), then a timeout for nbTimes - 1 when nbTimes - 1 > 0.
repeatWithInterval(t, nbTimes) ==
  [t EXCEPT !.started = TRUE,
            !.called = Append(@, [arg |-> nbTimes, at |-> t.now]),
            !.hasPending = (nbTimes - 1 > 0),
            !.pending = IF nbTimes - 1 > 0 THEN nbTimes - 1 ELSE 0,
            !.due = IF nbTimes - 1 > 0 THEN t.now + t.interval ELSE 0]

\* The caller's call.
RepeatStart ==
  /\ ~timer.started
  /\ timer' = repeatWithInterval(timer, timer.nbTimes)
  /\ UNCHANGED <<clientVars, cacheVars, promises, urlCheck, flow>>

\* Time passes while a timeout is waiting.
Tick ==
  /\ timer.hasPending /\ timer.now < timer.due
  /\ timer' = [timer EXCEPT !.now = @ + 1]
  /\ UNCHANGED <<clientVars, cacheVars, promises, urlCheck, flow>>

\* The timeout fires: () => repeatWithInterval(nbTimes - 1, interval, func)
Timeout ==
  /\ timer.hasPending /\ timer.now >= timer.due
  /\ timer' = repeatWithInterval(timer, timer.pending)
  /\ UNCHANGED <<clientVars, cacheVars, promises, urlCheck, flow>>

-----------------------------------------------------------------------------
(* src/lib/utils.js: allSettled, with the promises it builds.              *)

MaxInputs == 2   \* the longest promises array tried

Hole == [status |-> "hole"]
NoPromises == [called |-> FALSE, inputs |-> <<>>, settledOrder |-> <<>>, wrappers |-> <<>>,
               counted |-> {}, values |-> <<>>,
               all |-> [state |-> "none", value |-> <<>>, reason |-> ""]]

\* What the array may hold: a plain value, or a promise that is pending,
\* fulfilled or rejected when allSettled is called.
SettledValues == {"x", "y"}
InitialInputs ==
  { [promise |-> FALSE, state |-> "fulfilled", v |-> "x"],
    [promise |-> TRUE, state |-> "pending", v |-> ""],
    [promise |-> TRUE, state |-> "fulfilled", v |-> "y"],
    [promise |-> TRUE, state |-> "rejected", v |-> "y"] }

\* A wrapper whose rejection handler is missing: the rejection goes through.
thenSettledNoCatch(input) ==
  IF input.state = "fulfilled"
    THEN [state |-> "fulfilled", result |-> [status |-> "fulfilled", value |-> input.v], reason |-> ""]
    ELSE [state |-> "rejected", result |-> Hole, reason |-> input.v]

\* Promise.resolve(promise).then(val => ..., err => ...): how the wrapper
\* of a settled input settles.
thenSettled(input) ==
  IF input.state = "fulfilled"
    THEN [state |-> "fulfilled", result |-> [status |-> "fulfilled", value |-> input.v], reason |-> ""]
    ELSE [state |-> "fulfilled", result |-> [status |-> "rejected", reason |-> input.v], reason |-> ""]

PendingWrapper == [state |-> "pending", result |-> Hole, reason |-> ""]

\* allSettled(promises): one wrapper per input, and the Promise.all of
\* them, which is fulfilled at once for an empty array.
allSettled ==
  /\ ~promises.called
  /\ LET n == Len(promises.inputs)
     IN promises' = [promises EXCEPT
          !.called = TRUE,
          !.wrappers = [i \in 1..n |-> PendingWrapper],
          !.values = [i \in 1..n |-> Hole],
          !.all = IF n = 0 THEN [state |-> "fulfilled", value |-> <<>>, reason |-> ""]
                           ELSE [state |-> "pending", value |-> <<>>, reason |-> ""]]
  /\ UNCHANGED <<clientVars, cacheVars, timer, urlCheck, flow>>

\* A pending input promise settles, before or after the call.
InputSettles ==
  /\ \E i \in 1..Len(promises.inputs), s \in {"fulfilled", "rejected"}, v \in SettledValues :
       /\ promises.inputs[i].state = "pending"
       /\ promises' = [promises EXCEPT !.inputs[i].state = s, !.inputs[i].v = v,
                                       !.settledOrder = Append(@, i)]
  /\ UNCHANGED <<clientVars, cacheVars, timer, urlCheck, flow>>

\* The reaction of a wrapper to its settled input.
WrapperReaction ==
  /\ promises.called
  /\ \E i \in 1..Len(promises.inputs) :
       /\ promises.inputs[i].state # "pending"
       /\ promises.wrappers[i].state = "pending"
       /\ promises' = [promises EXCEPT !.wrappers[i] = thenSettled(promises.inputs[i])]
  /\ UNCHANGED <<clientVars, cacheVars, timer, urlCheck, flow>>

\* The reaction of Promise.all to a settled wrapper: a rejection rejects
\* it; a value takes its input's place, and the last one fulfils it.
AllReaction ==
  /\ promises.called /\ promises.all.state = "pending"
  /\ \E i \in 1..Len(promises.inputs) :
       /\ promises.wrappers[i].state # "pending"
       /\ i \notin promises.counted
       /\ LET w == promises.wrappers[i]
              values == [promises.values EXCEPT ![i] = w.result]
              counted == promises.counted \cup {i}
          IN promises' =
               IF w.state = "rejected"
                 THEN [promises EXCEPT !.counted = counted,
                         !.all = [state |-> "rejected", value |-> <<>>, reason |-> w.reason]]
                 ELSE [promises EXCEPT !.counted = counted, !.values = values,
                         !.all = IF counted = 1..Len(promises.inputs)
                                   THEN [state |-> "fulfilled", value |-> values, reason |-> ""]
                                   ELSE @]
  /\ UNCHANGED <<clientVars, cacheVars, timer, urlCheck, flow>>

-----------------------------------------------------------------------------
(* src/lib/utils.js: isValidRelativeUrl. A url is its characters in order. *)

MaxUrlLen == 4   \* the longest url enumerated besides the documented ones

NoUrlCheck == [url |-> <<>>, done |-> FALSE, result |-> FALSE]

UrlChars == {"a", ".", ":", "/", "\n"}

\* The urls of the doc comment.
UrlSegments == <<"a", "/", "b", "/", "c", "/", "d", "/", "e", "/", "f", "/", "g">>
UrlAboutHtml == <<"a", "b", "o", "u", "t", ".", "h", "t", "m", "l">>
UrlSlashSlash == <<"/", "/">>
UrlGoogle == <<"h", "t", "t", "p", "s", ":", "/", "/", "g", "o", "o", "g", "l", "e", ".", "c", "o", "m">>

Urls == (UNION {[1..n -> UrlChars] : n \in 0..MaxUrlLen})
          \cup {UrlSegments, UrlAboutHtml, UrlSlashSlash, UrlGoogle}

\* . matches any character but a line terminator.
MatchesDot(c) == c \notin {"\n", "\r"}

\* ^[^/]*\/[^/].*$ : k characters other than /, then /, then a character
\* other than /, then characters . matches, up to the end.
MatchesFirst(url) ==
  \E k \in 0..Len(url) :
    /\ \A i \in 1..k : url[i] # "/"
    /\ Len(url) >= k + 2
    /\ url[k + 1] = "/"
    /\ url[k + 2] # "/"
    /\ \A i \in (k + 3)..Len(url) : MatchesDot(url[i])

\* ^\/[^/].*$
MatchesSecond(url) ==
  /\ Len(url) >= 2
  /\ url[1] = "/"
  /\ url[2] # "/"
  /\ \A i \in 3..Len(url) : MatchesDot(url[i])

\* Boolean(url.match(/^[^/]*\/[^/].*$|^\/[^/].*$/))
isValidRelativeUrl(url) == MatchesFirst(url) \/ MatchesSecond(url)

ValidateUrl ==
  /\ ~urlCheck.done
  /\ urlCheck' = [urlCheck EXCEPT !.done = TRUE, !.result = isValidRelativeUrl(urlCheck.url)]
  /\ UNCHANGED <<clientVars, cacheVars, timer, promises, flow>>

-----------------------------------------------------------------------------
(* src/unnamed/part_000: ContributionFlow.getSteps and pushStepRoute.      *)

NoFlow ==
  [ minAmount |-> 0, fixed |-> FALSE, taxes |-> FALSE, amount |-> -1,
    hasProfile |-> FALSE, summaryReady |-> FALSE,
    verb |-> Undefined, routeVerb |-> Undefined, newFlowIsDefault |-> FALSE,
    tier |-> "none", hasParent |-> FALSE, stepName |-> "details",
    loggedIn |-> FALSE, hasInterval |-> FALSE,
    hasSteps |-> FALSE, steps |-> <<>>,
    navigation |-> [kind |-> "none", route |-> "", verb |-> Undefined, step |-> Undefined] ]

\* What getSteps reads: getTierMinAmount(tier), isFixedContribution(...),
\* taxesMayApply(...), stepDetails.amount (-1: no stepDetails), stepProfile,
\* stepSummary.isReady.
StepInputs ==
  [ minAmount : {0, 500}, fixed : BOOLEAN, taxes : BOOLEAN, amount : {-1, 0, 1000},
    hasProfile : BOOLEAN, summaryReady : BOOLEAN ]

\* A step list that leaves the payment step out of every free tier.
getStepsHidesFree(f) ==
  LET noPaymentRequired == f.minAmount = 0 /\ f.amount = 0
  IN <<[name |-> "details", isCompleted |-> (f.amount # -1 /\ f.amount >= f.minAmount)],
       [name |-> "profile", isCompleted |-> f.hasProfile]>>
     \o (IF ~(f.minAmount = 0) THEN <<[name |-> "payment", isCompleted |-> TRUE]>> ELSE <<>>)
     \o (IF f.taxes
           THEN <<[name |-> "summary", isCompleted |-> (noPaymentRequired \/ f.summaryReady)]>>
           ELSE <<>>)

\* getSteps(): the names of the steps and their isCompleted.
getSteps(f) ==
  LET noPaymentRequired == f.minAmount = 0 /\ f.amount = 0
  IN <<[name |-> "details", isCompleted |-> (f.amount # -1 /\ f.amount >= f.minAmount)],
       [name |-> "profile", isCompleted |-> f.hasProfile]>>
     \o (IF ~(f.minAmount = 0 /\ f.fixed)
           THEN <<[name |-> "payment", isCompleted |-> TRUE]>> ELSE <<>>)
     \o (IF f.taxes
           THEN <<[name |-> "summary", isCompleted |-> (noPaymentRequired \/ f.summaryReady)]>>
           ELSE <<>>)

GetSteps ==
  /\ ~flow.hasSteps
  /\ flow' = [flow EXCEPT !.hasSteps = TRUE, !.steps = getSteps(flow)]
  /\ UNCHANGED <<clientVars, cacheVars, timer, promises, urlCheck>>

\* What pushStepRoute reads: props.verb, routeParams.verb, the new-flow
\* flag, the tier (none, a ticket, another type), collective.parent, the
\* step, LoggedInUser, stepDetails.interval.
RouteInputs ==
  [ verb : {Undefined, Str(""), Str("donate"), Str("contribute"), Str("new-contribute"), Str("pay")},
    routeVerb : {Undefined, Str("contribute"), Str("new-contribute"), Str("events")},
    newFlowIsDefault : BOOLEAN,
    tier : {"none", "TICKET", "TIER"},
    hasParent : BOOLEAN,
    stepName : {"details", "payment", "success"},
    loggedIn : BOOLEAN,
    hasInterval : BOOLEAN ]

\* A pushStepRoute that tests the verb prop, not the merged parameters.
pushStepRouteTestsProp(f) ==
  LET new == f.newFlowIsDefault
      verb0 == Or(f.verb, IF new THEN Str("donate") ELSE Str("new-donate"))
      verb1 == IF f.routeVerb # Undefined THEN f.routeVerb ELSE verb0
      step == IF f.stepName = "details" THEN Undefined ELSE Str(f.stepName)
      routed ==
        IF f.tier # "none"
          THEN IF f.tier = "TICKET" /\ f.hasParent
                 THEN [route |-> IF new THEN "orderEventTier" ELSE "new-order-event-tier",
                       verb |-> IF new THEN Str("events") ELSE Str("new-events")]
                 ELSE [route |-> IF new THEN "orderCollectiveTierNew" ELSE "new-contribute",
                       verb |-> IF new THEN Str("contribute") ELSE Str("new-contribute")]
          ELSE [route |-> IF new THEN "orderCollectiveNew" ELSE "new-donate",
                verb |-> IF f.verb \in {Str("contribute"), Str("new-contribute")}
                           THEN (IF new THEN Str("donate") ELSE Str("new-donate"))
                           ELSE verb1]
  IN IF f.stepName = "payment" /\ ~f.loggedIn /\ f.hasInterval
       THEN [kind |-> "createProfile", route |-> "", verb |-> Undefined, step |-> Undefined]
       ELSE [kind |-> "pushRoute", route |-> routed.route, verb |-> routed.verb, step |-> step]

\* pushStepRoute(stepName, routeParams): the navigation it ends with.
pushStepRoute(f) ==
  LET new == f.newFlowIsDefault
      verb0 == Or(f.verb, IF new THEN Str("donate") ELSE Str("new-donate"))
      verb1 == IF f.routeVerb # Undefined THEN f.routeVerb ELSE verb0
      step == IF f.stepName = "details" THEN Undefined ELSE Str(f.stepName)
      routed ==
        IF f.tier # "none"
          THEN IF f.tier = "TICKET" /\ f.hasParent
                 THEN [route |-> IF new THEN "orderEventTier" ELSE "new-order-event-tier",
                       verb |-> IF new THEN Str("events") ELSE Str("new-events")]
                 ELSE [route |-> IF new THEN "orderCollectiveTierNew" ELSE "new-contribute",
                       verb |-> IF new THEN Str("contribute") ELSE Str("new-contribute")]
          ELSE [route |-> IF new THEN "orderCollectiveNew" ELSE "new-donate",
                verb |-> IF verb1 \in {Str("contribute"), Str("new-contribute")}
                           THEN (IF new THEN Str("donate") ELSE Str("new-donate"))
                           ELSE verb1]
  IN IF f.stepName = "payment" /\ ~f.loggedIn /\ f.hasInterval
       THEN [kind |-> "createProfile", route |-> "", verb |-> Undefined, step |-> Undefined]
       ELSE [kind |-> "pushRoute", route |-> routed.route, verb |-> routed.verb, step |-> step]

PushStepRoute ==
  /\ flow.navigation.kind = "none"
  /\ flow' = [flow EXCEPT !.navigation = pushStepRoute(flow)]
  /\ UNCHANGED <<clientVars, cacheVars, timer, promises, urlCheck>>

-----------------------------------------------------------------------------
(* The process: its mode and environment are fixed when it starts.         *)

Environments ==
  { [OC_ENV |-> Str("production"), OC_SECRET |-> Str("s3cret"), OC_APPLICATION |-> Str("frontend"),
     API_KEY |-> Str("k"), API_URL |-> Str("http://api.internal"),
     GRAPHQL_BENCHMARK |-> Str("true"), hrtime |-> TRUE],
    [OC_ENV |-> Undefined, OC_SECRET |-> Undefined, OC_APPLICATION |-> Undefined,
     API_KEY |-> Undefined, API_URL |-> Undefined,
     GRAPHQL_BENCHMARK |-> Undefined, hrtime |-> TRUE],
    [OC_ENV |-> Undefined, OC_SECRET |-> Undefined, OC_APPLICATION |-> Undefined,
     API_KEY |-> Undefined, API_URL |-> Undefined,
     GRAPHQL_BENCHMARK |-> Str("true"), hrtime |-> FALSE] }

Init ==
  /\ browser \in BOOLEAN
  /\ env \in {e \in Environments : ~browser => e.hrtime}
  /\ localStorage \in LocalStorageTokens
  /\ apolloClient = 0
  /\ clients = <<>>
  /\ calls = <<>>
  /\ op = Idle
  /\ cache = EmptyStore
  /\ writes = <<>>
  /\ timer = NoTimer /\ promises = NoPromises /\ urlCheck = NoUrlCheck /\ flow = NoFlow

Next ==
  \/ InitClient
  \/ Query
  \/ ErrorLinkRequest
  \/ AuthLinkRequest
  \/ HttpLinkRequest
  \/ Fetch
  \/ CrossFetch
  \/ FetchReturn
  \/ AuthLinkResponse
  \/ ErrorLinkResponse
  \/ Deliver
  \/ SetAccessToken

Spec == Init /\ [][Next]_vars

-----------------------------------------------------------------------------
(* The functions of utils.js and the ContributionFlow methods, each run    *)
(* on its own inputs in a page that has not created a client.              *)

NoClient ==
  /\ browser = TRUE
  /\ env \in {e \in Environments : ~e.hrtime}
  /\ localStorage = Null
  /\ apolloClient = 0
  /\ clients = <<>>
  /\ calls = <<>>
  /\ op = Idle
  /\ cache = EmptyStore
  /\ writes = <<>>

InitRepeat ==
  /\ NoClient
  /\ \E nbTimes \in 0..MaxTimes, interval \in 0..MaxInterval :
       timer = [NoTimer EXCEPT !.nbTimes = nbTimes, !.interval = interval]
  /\ promises = NoPromises /\ urlCheck = NoUrlCheck /\ flow = NoFlow

NextRepeat == RepeatStart \/ Tick \/ Timeout

SpecRepeat == InitRepeat /\ [][NextRepeat]_vars

InitSettled ==
  /\ NoClient
  /\ \E inputs \in UNION {[1..n -> InitialInputs] : n \in 0..MaxInputs} :
       promises = [NoPromises EXCEPT !.inputs = inputs]
  /\ timer = NoTimer /\ urlCheck = NoUrlCheck /\ flow = NoFlow

NextSettled == allSettled \/ InputSettles \/ WrapperReaction \/ AllReaction

SpecSettled == InitSettled /\ [][NextSettled]_vars

InitUrl ==
  /\ NoClient
  /\ \E url \in Urls : urlCheck = [NoUrlCheck EXCEPT !.url = url]
  /\ timer = NoTimer /\ promises = NoPromises /\ flow = NoFlow

NextUrl == ValidateUrl

SpecUrl == InitUrl /\ [][NextUrl]_vars

InitSteps ==
  /\ NoClient
  /\ \E i \in StepInputs :
       flow = [NoFlow EXCEPT !.minAmount = i.minAmount, !.fixed = i.fixed, !.taxes = i.taxes,
                             !.amount = i.amount, !.hasProfile = i.hasProfile,
                             !.summaryReady = i.summaryReady]
  /\ timer = NoTimer /\ promises = NoPromises /\ urlCheck = NoUrlCheck

NextSteps == GetSteps

SpecSteps == InitSteps /\ [][NextSteps]_vars

InitRoute ==
  /\ NoClient
  /\ \E i \in RouteInputs :
       flow = [NoFlow EXCEPT !.verb = i.verb, !.routeVerb = i.routeVerb,
                             !.newFlowIsDefault = i.newFlowIsDefault, !.tier = i.tier,
                             !.hasParent = i.hasParent, !.stepName = i.stepName,
                             !.loggedIn = i.loggedIn, !.hasInterval = i.hasInterval]
  /\ timer = NoTimer /\ promises = NoPromises /\ urlCheck = NoUrlCheck

NextRoute == PushStepRoute

SpecRoute == InitRoute /\ [][NextRoute]_vars

-----------------------------------------------------------------------------
(* The InMemoryCache createClient configures: the identity of an object    *)
(* and the merge of Event.tiers, as the cache applies them to the objects  *)
(* of the responses it normalizes.                                         *)

\* Math.floor(Math.random() * 1000000) is one of 0 .. RandomRange - 1; the
\* model draws from the two ends of that range and one value next to them.
RandomRange == 1000000
RandomDraws == {0, 1, RandomRange - 1}

\* An identity that falls back to a fixed number.
dataIdFromObjectFixedFallback(result, random) ==
  result.__typename \o ":" \o ToStr(Or(Or(Or(result.id, result.name), result.slug), Num(0)))

\* dataIdFromObject, with the number Math.random gives when it is asked.
dataIdFromObject(result, random) ==
  result.__typename \o ":" \o ToStr(Or(Or(Or(result.id, result.name), result.slug), Num(random)))

\* A merge that keeps the existing items before the incoming ones.
mergeConcat(existing, incoming) == existing \o incoming

\* typePolicies.Event.fields.tiers.merge
merge(existing, incoming) == incoming

\* The objects of the responses: ids are numbers (v1) or strings (v2).
Objects ==
  [ __typename : {"Event", "Tier"},
    id : {Undefined, Num(0), Str("1")},
    name : {Undefined, Str("a")},
    slug : {Undefined, Str("s")},
    hasTiers : BOOLEAN,
    tiers : {<<"c">>} ]

\* Whether the fallback of dataIdFromObject is reached.
UsesRandom(result) == ~Truthy(result.id) /\ ~Truthy(result.name) /\ ~Truthy(result.slug)

\* The cache normalizes an object: it is stored under its identity, and its
\* tiers field goes through the type policy's merge when it is an Event's
\* (an absent existing value is an empty one), and replaces the stored one
\* otherwise.
CacheWrite(result, random) ==
  /\ Len(writes) < MaxWrites
  /\ LET id == dataIdFromObject(result, random)
         stored == IF id \in DOMAIN cache THEN cache[id] ELSE [hasTiers |-> FALSE, tiers |-> <<>>]
         merged == IF ~result.hasTiers THEN stored
                   ELSE IF result.__typename = "Event"
                     THEN [hasTiers |-> TRUE, tiers |-> merge(stored.tiers, result.tiers)]
                     ELSE [hasTiers |-> TRUE, tiers |-> result.tiers]
     IN /\ cache' = [x \in (DOMAIN cache) \cup {id} |-> IF x = id THEN merged ELSE cache[x]]
        /\ writes' = Append(writes, [object |-> result, id |-> id,
                                     random |-> IF UsesRandom(result) THEN random ELSE -1,
                                     existing |-> stored])
  /\ UNCHANGED <<clientVars, utilVars>>

Normalize == \E result \in Objects, random \in RandomDraws : CacheWrite(result, random)

InitCache ==
  /\ browser = TRUE
  /\ env \in {e \in Environments : ~e.hrtime}
  /\ localStorage = Null
  /\ apolloClient = 0
  /\ clients = <<>>
  /\ calls = <<>>
  /\ op = Idle
  /\ \E initialState \in InitialStates : cache = restore(initialState)
  /\ writes = <<>>
  /\ timer = NoTimer /\ promises = NoPromises /\ urlCheck = NoUrlCheck /\ flow = NoFlow

NextCache == Normalize

SpecCache == InitCache /\ [][NextCache]_vars

-----------------------------------------------------------------------------
(* Properties of the cache configuration.                                  *)

\* C8: two normalized objects with the same __typename and the same id
\* value get the same identity, whatever their other fields.
C8_SameIdSameIdentity ==
  \A i, j \in 1..Len(writes) :
    /\ writes[i].object.__typename = writes[j].object.__typename
    /\ writes[i].object.id # Undefined
    /\ writes[i].object.id = writes[j].object.id
    => writes[i].id = writes[j].id

\* C9, as claimed: two objects of one __typename that lack id, name and
\* slug never get the same identity.
C9_NeverSameIdentity ==
  \A i, j \in 1..Len(writes) :
    /\ i # j
    /\ writes[i].object.__typename = writes[j].object.__typename
    /\ UsesRandom(writes[i].object) /\ UsesRandom(writes[j].object)
    => writes[i].id # writes[j].id

\* C9, amended: the identity of such an object is its __typename, a colon
\* and the number drawn from 0 .. 999999 for it, so two of them get
\* different identities exactly when their draws differ, and the same
\* identity (one cache entry) when the draws coincide.
C9_DistinctIffDrawsDiffer ==
  \A i, j \in 1..Len(writes) :
    /\ writes[i].object.__typename = writes[j].object.__typename
    /\ UsesRandom(writes[i].object) /\ UsesRandom(writes[j].object)
    => /\ writes[i].random \in 0..(RandomRange - 1)
       /\ writes[i].id = writes[i].object.__typename \o ":" \o ToString(writes[i].random)
       /\ (writes[i].id # writes[j].id) <=> (writes[i].random # writes[j].random)

C9_Witness ==
  /\ Len(writes) >= 2
  /\ writes[1].object.__typename = writes[2].object.__typename
  /\ UsesRandom(writes[1].object) /\ UsesRandom(writes[2].object)
  /\ writes[1].random # writes[2].random
  /\ writes[1].id # writes[2].id

\* C10: when an Event with a tiers field is normalized, the tiers stored
\* under its identity are exactly the incoming ones, whatever was stored.
C10_TiersReplaced ==
  writes # <<>> =>
    LET last == writes[Len(writes)]
    IN last.object.__typename = "Event" /\ last.object.hasTiers =>
         /\ cache[last.id].hasTiers
         /\ cache[last.id].tiers = last.object.tiers

C10_Witness ==
  /\ writes # <<>>
  /\ writes[Len(writes)].object.__typename = "Event"
  /\ writes[Len(writes)].existing.tiers = <<"a", "b">>
  /\ writes[Len(writes)].object.tiers = <<"c">>
  /\ cache[writes[Len(writes)].id].tiers = <<"c">>

-----------------------------------------------------------------------------
(* Properties of initClient.                                               *)

\* C1: in a browser, the first initClient call builds the client and stores
\* it in apolloClient; every later call returns that same client, and the
\* stored client is never cleared nor replaced: at every moment it is the
\* one the first call returned, and it is the only client ever built.
C1_BrowserSingleton ==
  browser =>
    /\ calls = <<>> => apolloClient = 0 /\ clients = <<>>
    /\ calls # <<>> =>
         /\ Len(clients) = 1
         /\ apolloClient = 1
         /\ \A i \in 1..Len(calls) : calls[i].returned = apolloClient

C1_Witness ==
  /\ browser
  /\ Len(calls) >= 2
  /\ calls[2].returned = calls[1].returned
  /\ calls[2].graphqlUrl # calls[1].graphqlUrl

\* C2: on the server every initClient call builds and returns a new client:
\* the i-th call returns the i-th client built, any two calls return
\* different clients, and nothing is kept in apolloClient.
C2_ServerFreshClient ==
  ~browser =>
    /\ apolloClient = 0
    /\ Len(clients) = Len(calls)
    /\ \A i \in 1..Len(calls) : calls[i].returned = i
    /\ \A i, j \in 1..Len(calls) : i # j => calls[i].returned # calls[j].returned

C2_Witness ==
  /\ ~browser
  /\ Len(calls) >= 2
  /\ calls[1].returned # calls[2].returned

-----------------------------------------------------------------------------
(* Properties of the links and of the fetch wrapper.                       *)

IdentifyingHeaders == {"oc-env", "oc-secret", "oc-application", "user-agent"}

\* Whether the stage has acted on the operation in flight.
Passed(stage) == \E i \in 1..Len(op.trace) : op.trace[i] = stage

\* C3: the headers fetch hands to crossFetch hold all four identifying
\* fields outside a browser, and none of them in a browser.
C3_IdentifyingHeaders ==
  Passed("fetch") =>
    IF ~browser
      THEN IdentifyingHeaders \subseteq DOMAIN op.sent
      ELSE IdentifyingHeaders \cap DOMAIN op.sent = {}

C3_Witness ==
  /\ ~browser
  /\ op.pc = "crossFetch"
  /\ IdentifyingHeaders \subseteq DOMAIN op.sent
  /\ "authorization" \in DOMAIN op.sent

\* C4: once authLink has acted, the context's headers are the incoming
\* ones plus authorization = "Bearer T" when the store holds a (non-empty)
\* token T, and exactly the incoming ones (an absent headers object stays
\* absent) when it holds none; either way the operation goes on to the
\* next link without an outcome of authLink's making.
C4_AuthorizationHeader ==
  Passed("authLink") =>
    /\ Truthy(op.token) =>
         /\ op.context.hasHeaders
         /\ DOMAIN op.context.headers =
              (IF op.hadHeaders THEN DOMAIN op.headersIn ELSE {}) \cup {"authorization"}
         /\ op.context.headers["authorization"] = Str("Bearer " \o op.token.s)
         /\ \A k \in DOMAIN op.headersIn :
              k # "authorization" => op.context.headers[k] = op.headersIn[k]
    /\ ~Truthy(op.token) =>
         /\ op.context.hasHeaders = op.hadHeaders
         /\ op.context.headers = op.headersIn
    /\ op.trace[Len(op.trace)] = "authLink" =>
         op.pc = "request" /\ op.outcome = NoOutcome /\ op.result = NoOutcome

C4_Witness ==
  /\ Passed("authLink")
  /\ op.token = Str("T1")
  /\ op.hadHeaders
  /\ "x-custom" \in DOMAIN op.headersIn
  /\ op.context.headers["authorization"] = Str("Bearer T1")

\* C5: errorLink hands on what it was given: after it has observed the
\* outcome, the value on its way to the caller, and the value the caller
\* receives, is the outcome the transport produced.
C5_ErrorLinkPassThrough ==
  /\ Passed("errorLink.next") => op.result = op.outcome
  /\ op.pc = "done" => op.delivered = op.outcome /\ op.outcome # NoOutcome

C5_Witness ==
  /\ op.pc = "done"
  /\ op.delivered = WithErrors(<<NullError, GqlError>>)
  /\ \E i \in 1..Len(op.log) : op.log[i] = "[GraphQL error]: Received null error"

\* C6: the uri the operation is sent to is the override when the client was
\* built with one, whatever the apiVersion; else the v2 url exactly when the
\* context's apiVersion is the string "2", and the v1 url otherwise.
C6_EndpointSelection ==
  Passed("fetch") =>
    LET graphqlUrl == clients[op.client].graphqlUrl
    IN op.url = IF Truthy(graphqlUrl) THEN graphqlUrl.s
                ELSE IF op.context.apiVersion = Str("2")
                  THEN getGraphqlUrl(Str("v2"))
                  ELSE getGraphqlUrl(Str("v1"))

C6_Witness ==
  /\ Passed("fetch")
  /\ clients[op.client].graphqlUrl = Str(Override)
  /\ op.context.apiVersion = Str("2")
  /\ op.url = Override

\* C7: an operation passes the stages in one order: errorLink, authLink,
\* the split with exactly one of the two transports, fetch, and on the way
\* back authLink's relay, errorLink's handler, and only then the caller.
IsPrefix(s, t) == Len(s) <= Len(t) /\ \A i \in 1..Len(s) : s[i] = t[i]

StageOrder(transport) ==
  <<"errorLink", "authLink", "httpLink", transport, "fetch", "crossFetch",
    "authLink.next", "errorLink.next", "caller">>

C7_LinkOrder ==
  /\ \E transport \in {"apiV1Link", "apiV2Link"} : IsPrefix(op.trace, StageOrder(transport))
  /\ op.pc = "done" => op.trace = StageOrder(op.transport)

C7_Witness ==
  /\ op.pc = "done"
  /\ op.trace = StageOrder("apiV2Link")
  /\ "authorization" \in DOMAIN op.sent

\* C11: fetch calls crossFetch once per operation and settles as crossFetch
\* did: with the same error when it rejected, with the same response when
\* it resolved, with or without the benchmark line.
C11_FetchTransparent ==
  /\ Passed("fetch") => op.crossFetchCalls = 1
  /\ ~Passed("fetch") => op.crossFetchCalls = 0
  /\ op.pc \in {"response", "done"} =>
       op.fetchReturned = op.fetched /\ op.fetched # NoOutcome

C11_Witness ==
  /\ op.pc = "response"
  /\ op.crossFetchCalls = 1
  /\ op.fetched = NetworkError
  /\ op.fetchReturned = NetworkError
  /\ env.hrtime /\ Truthy(env.GRAPHQL_BENCHMARK)

\* C17: in a browser every initClient call returns the client built from
\* the first call's initialState and graphqlUrl, and the operations sent
\* through it go to the endpoint the first call's graphqlUrl selects; the
\* arguments of the later calls change neither.
C17_LaterArgumentsIgnored ==
  (browser /\ calls # <<>>) =>
    LET first == calls[1]
    IN /\ \A i \in 1..Len(calls) :
            clients[calls[i].returned] = createClient(first.initialState, first.graphqlUrl)
       /\ clients[apolloClient].cache = restore(first.initialState)
       /\ Passed("fetch") =>
            op.url = IF Truthy(first.graphqlUrl) THEN first.graphqlUrl.s
                     ELSE IF op.context.apiVersion = Str("2")
                       THEN getGraphqlUrl(Str("v2"))
                       ELSE getGraphqlUrl(Str("v1"))

C17_Witness ==
  /\ browser
  /\ Len(calls) = 2
  /\ calls[1] = [initialState |-> EmptyStore, graphqlUrl |-> Undefined, returned |-> 1]
  /\ calls[2] = [initialState |-> Snapshot1, graphqlUrl |-> Str(Override), returned |-> 1]
  /\ clients[1].cache = EmptyStore
  /\ Passed("fetch")
  /\ op.url = getGraphqlUrl(Str("v1"))

-----------------------------------------------------------------------------
(* Properties of utils.js.                                                 *)

\* C12: when the run is over (no timeout waiting), func has been called
\* exactly nbTimes times, the i-th call with nbTimes - i + 1, the
\* iterations left counting the one in progress.
C12_ExactlyNbTimes ==
  timer.started /\ ~timer.hasPending =>
    /\ Len(timer.called) = timer.nbTimes
    /\ \A i \in 1..Len(timer.called) : timer.called[i].arg = timer.nbTimes - i + 1

\* What each input promise of allSettled stands for in the result.
Expected(input) ==
  IF input.state = "fulfilled"
    THEN [status |-> "fulfilled", value |-> input.v]
    ELSE [status |-> "rejected", reason |-> input.v]

\* C13: the promise allSettled returns never rejects; it is fulfilled only
\* once every input is settled, with one record per input in input order:
\* { status: 'fulfilled', value } or { status: 'rejected', reason }.
C13_AllSettled ==
  /\ promises.all.state # "rejected"
  /\ promises.all.state = "fulfilled" =>
       /\ Len(promises.all.value) = Len(promises.inputs)
       /\ \A i \in 1..Len(promises.inputs) :
            /\ promises.inputs[i].state # "pending"
            /\ promises.all.value[i] = Expected(promises.inputs[i])
  /\ (promises.called /\ promises.all.state = "pending") =>
       \E i \in 1..Len(promises.inputs) : i \notin promises.counted

C13_Witness ==
  /\ promises.all.state = "fulfilled"
  /\ Len(promises.inputs) = 2
  /\ promises.settledOrder = <<2, 1>>
  /\ promises.inputs[1].state = "rejected"
  /\ promises.inputs[2].state = "fulfilled"
  /\ promises.all.value = <<[status |-> "rejected", reason |-> promises.inputs[1].v],
                            [status |-> "fulfilled", value |-> promises.inputs[2].v]>>

\* C14: isValidRelativeUrl gives true for 'a/b/c/d/e/f/g' and 'about.html',
\* and false for '//' and 'https://google.com'.
C14_DocumentedExamples ==
  urlCheck.done =>
    /\ urlCheck.url \in {UrlSegments, UrlAboutHtml} => urlCheck.result
    /\ urlCheck.url \in {UrlSlashSlash, UrlGoogle} => ~urlCheck.result

-----------------------------------------------------------------------------
(* Properties of ContributionFlow.                                         *)

StepNames == [i \in 1..Len(flow.steps) |-> flow.steps[i].name]

\* C15: the steps are details, profile, then payment exactly when not
\* (minimum amount 0 and fixed contribution), then summary exactly when
\* taxes may apply.
C15_Steps ==
  flow.hasSteps =>
    StepNames = <<"details", "profile">>
                  \o (IF ~(flow.minAmount = 0 /\ flow.fixed) THEN <<"payment">> ELSE <<>>)
                  \o (IF flow.taxes THEN <<"summary">> ELSE <<>>)

C15_Witness ==
  /\ flow.hasSteps
  /\ flow.minAmount = 0 /\ flow.fixed /\ flow.taxes
  /\ StepNames = <<"details", "profile", "summary">>

\* C16: when pushStepRoute navigates with Router.pushRoute and the flow
\* has no tier, the verb parameter is neither 'contribute' nor
\* 'new-contribute': either is replaced by 'donate' when the new flow is
\* the default, by 'new-donate' otherwise.
C16_NoContributeWithoutTier ==
  (flow.navigation.kind = "pushRoute" /\ flow.tier = "none") =>
    LET merged == IF flow.routeVerb # Undefined THEN flow.routeVerb
                  ELSE Or(flow.verb, IF flow.newFlowIsDefault THEN Str("donate") ELSE Str("new-donate"))
    IN /\ flow.navigation.verb \notin {Str("contribute"), Str("new-contribute")}
       /\ merged \in {Str("contribute"), Str("new-contribute")} =>
            flow.navigation.verb = (IF flow.newFlowIsDefault THEN Str("donate") ELSE Str("new-donate"))
       /\ merged \notin {Str("contribute"), Str("new-contribute")} => flow.navigation.verb = merged

C16_Witness ==
  /\ flow.navigation.kind = "pushRoute"
  /\ flow.tier = "none"
  /\ flow.verb = Str("pay")
  /\ flow.routeVerb = Str("new-contribute")
  /\ flow.newFlowIsDefault
  /\ flow.navigation.verb = Str("donate")

=============================================================================
